---- MODULE Spec2Model ----
(***************************************************************************)
(* getparty: the download engine of the multi-part HTTP download manager.  *)
(*                                                                         *)
(* Spec       - Cmd.Run as a state machine: resolver result, planner,      *)
(*              part workers (Part.download), join, assembler, sidecar;    *)
(*              several processes in a row over one disk, so that resume   *)
(*              (--continue) is part of the behaviours.                    *)
(* SpecFollow - Cmd.follow, the redirect loop, and Cmd.Exit on its result. *)
(*                                                                         *)
(* A byte of the resource is modelled by the pair (version, offset) packed *)
(* in one integer, so that a file equals the server's body only when it    *)
(* holds exactly the offsets 0..len-1 of the current version, in order.    *)
(***************************************************************************)
EXTENDS Integers, Sequences, FiniteSets, TLC

\* ------------------------------------------------------------------ bounds
MaxLen == 4
MaxParts == 2
MaxRetry == 1
MaxEvents == 3
MaxChain == 11
MaxMirrors == 3
MaxPlanLen == 12
MaxPlanParts == 6
\* base timeouts in seconds (the default is 15) and attempts per part
MaxTimeout == 16
MaxAttempt == 34

\* ------------------------------------------------------- program constants
maxRedirects == 10

StatusOK == 200
StatusPartialContent == 206
StatusForbidden == 403

\* ------------------------------------------------------------------ errors
\* An error value is a record: msg names the error, expected tells whether
\* it is (wrapped in) an ExpectedError, flagsErr whether it is *flags.Error.
NilErr == [msg |-> "nil", expected |-> FALSE, flagsErr |-> FALSE]
PlainErr(m) == [msg |-> m, expected |-> FALSE, flagsErr |-> FALSE]
ExpectedError(m) == [msg |-> m, expected |-> TRUE, flagsErr |-> FALSE]

ErrGiveUp == PlainErr("give up!")
ErrCanceled == PlainErr("context canceled")
ErrTransport == PlainErr("transport")
ErrUnexpectedStatus == PlainErr("unexpected status")
ErrIO == PlainErr("io")

\* Cmd.Exit: errors.Cause(err) switches on the error's type; WithMessage
\* wrappers are transparent to Cause, ExpectedError is not a causer.
Exit(err) ==
    IF err = NilErr THEN 0
    ELSE IF err.flagsErr THEN 2
    ELSE IF err.expected THEN 1
    ELSE 3

isRedirect(status) == status > 299 /\ status < 400

\* ------------------------------------------------------------------ server
ByteOf(ver, off) == ver * (MaxLen + 2) + off

\* the body the server holds: offsets 0..len-1 of its current version
Body(s) == [k \in 1..s.len |-> ByteOf(s.ver, k - 1)]

\* bytes lo..hi (inclusive offsets) of the body
BodyRange(s, lo, hi) == [k \in 1..(hi - lo + 1) |-> ByteOf(s.ver, lo + k - 1)]

\* what the resolver reads from the terminal response
RespContentLength(s) == IF s.known THEN s.len ELSE -1

\* "ranges": Accept-Ranges: bytes, answers 206; "plain": no Accept-Ranges,
\* answers 200; "liar": Accept-Ranges: bytes, but answers 200 with the
\* whole body (a liar without Content-Length is planned like "plain").
Modes == {"ranges", "plain", "liar"}

\* the lengths of the resource: an odd and an even one
Lens == {MaxLen - 1, MaxLen}

\* -------------------------------------------------------------------- Part
NewPart(i, start, stop) ==
    [FileName |-> i, Start |-> start, Stop |-> stop, Written |-> 0, Skip |-> FALSE]

\* Part.isDone
isDone(p) == p.Skip \/ p.Written > p.Stop - p.Start

\* Part.getRange: the first and the last offset the request asks for
\* ("bytes=0-" when Stop <= 0)
rangeFirst(p) == IF p.Stop <= 0 THEN 0 ELSE p.Start + p.Written
rangeLast(p, s) == IF p.Stop <= 0 \/ p.Stop > s.len - 1 THEN s.len - 1 ELSE p.Stop

\* ----------------------------------------------------------------- Session
\* Session.calcParts
calcParts(L, n) ==
    IF n <= 1 \/ L <= 0
    THEN << NewPart(0, 0, 0) >>
    ELSE LET partSize == L \div n
         IN [k \in 1..n |->
                NewPart(k - 1, (k - 1) * partSize,
                        IF k = n THEN L - 1 ELSE k * partSize - 1)]

RECURSIVE SumWritten(_)
SumWritten(ps) ==
    IF ps = << >> THEN 0 ELSE Head(ps).Written + SumWritten(Tail(ps))

\* Session.totalWritten
totalWritten(sess) == SumWritten(sess.Parts)

\* Session.actualPartsOnly
actualPartsOnly(ps) == SelectSeq(ps, LAMBDA p : ~p.Skip)

NoFile == [exists |-> FALSE, data |-> << >>]
File(d) == [exists |-> TRUE, data |-> d]

NoSession ==
    [Location |-> "none", ContentLength |-> 0, ContentMD5 |-> 0, Parts |-> << >>]

VARIABLES
    srv,        \* the server: [len, known, mode, ver]
    partFile,   \* disk: segment files <name>.part<i>, i in 0..MaxParts-1
    outFile,    \* disk: the output file <SuggestedFileName>
    sidecar,    \* disk: <SuggestedFileName>.json, [exists, sess]
    pc,         \* Run's position: "idle", "follow", "fanout", "wait", "exit"
    opt,        \* this process' options: [Parts, cont]
    userUrl,    \* Run's userUrl
    session,    \* Run's session
    canceled,   \* ctx.Err() == context.Canceled
    w,          \* part workers, by index in session.Parts
    egErr,      \* errgroup's first error
    runErr,     \* what Run returned
    outcome,    \* how Run ended: "none", "saved", "state", "guard", ...
    hist,       \* history of the run, for stating the claims
    fol,        \* Cmd.follow: the redirect loop's state
    mir,        \* Cmd.bestMirror: the mirror race's state
    tmr         \* the per-attempt deadline of one worker

vars == << srv, partFile, outFile, sidecar, pc, opt, userUrl, session,
           canceled, w, egErr, runErr, outcome, hist, fol, mir, tmr >>

runVars == << srv, partFile, outFile, sidecar, pc, opt, userUrl, session,
              canceled, w, egErr, runErr, outcome, hist >>

Parts == session.Parts

\* client.Do returned no response (a transport error)
NoResponse == 0

IdleWorker ==
    [pc |-> "none", count |-> 0, total |-> 0, gets |-> 0, pos |-> 0,
     last |-> -1, ret |-> NilErr, status |-> NoResponse]

Snapshot == [parts |-> partFile, out |-> outFile, side |-> sidecar]

\* follow is not running
NoFollow ==
    [pc |-> "off", i |-> 0, url |-> 0, redirected |-> FALSE, chain |-> 0,
     term |-> StatusOK, location |-> -1, err |-> NilErr, neterr |-> FALSE]

\* bestMirror is not running
NoMirror ==
    [n |-> 0, valid |-> << >>, status |-> << >>, sel |-> "off", j |-> 0,
     wg |-> 0, started |-> FALSE, pr |-> << >>, issued |-> {}, early |-> FALSE,
     first |-> << >>, writes |-> << >>, ctx |-> "live", best |-> 0,
     err |-> NilErr]

\* no deadline is being computed
NoTimer ==
    [bits |-> 64, timeout |-> 0, count |-> 0, armed |-> FALSE,
     ctxTimeout |-> << 0, 0, 0, 0, 0, 0, 0, 0 >>,
     prev |-> << 0, 0, 0, 0, 0, 0, 0, 0 >>]

Init ==
    /\ fol = NoFollow
    /\ mir = NoMirror
    /\ tmr = NoTimer
    /\ srv \in [len : Lens, known : BOOLEAN, mode : Modes, ver : {0}, md5 : {0}]
    /\ srv.mode = "liar" => srv.known
    /\ partFile = [i \in 0..(MaxParts - 1) |-> NoFile]
    /\ outFile = NoFile
    /\ sidecar = [exists |-> FALSE, sess |-> NoSession]
    /\ pc = "idle"
    /\ opt \in [Parts : 1..MaxParts, cont : {FALSE}]
    /\ userUrl = "none"
    /\ session = NoSession
    /\ canceled = FALSE
    /\ w = [i \in 1..MaxParts |-> IdleWorker]
    /\ egErr = NilErr
    /\ runErr = NilErr
    /\ outcome = "none"
    /\ hist = [disk0 |-> [parts |-> [i \in 0..(MaxParts - 1) |-> NoFile],
                          out |-> NoFile,
                          side |-> [exists |-> FALSE, sess |-> NoSession]],
               srv0 |-> srv,
               prevCanceled |-> FALSE, changed |-> FALSE, faults |-> FALSE,
               gaveUp |-> FALSE, cancelRunning |-> FALSE, nevents |-> 0]

\* ------------------------------------------------------------ environment
\* The environment acts at most MaxEvents times in a behaviour: a failed
\* request, a 403 answer, a broken body, a signal, an I/O error, a replaced
\* resource, a restart of the program.
MayFail == hist.nevents < MaxEvents
Fault(h) == [h EXCEPT !.faults = TRUE, !.nevents = @ + 1]

\* The remote resource is replaced between two processes.
ServerChange(l, m) ==
    /\ pc = "exit"
    /\ UNCHANGED << fol, mir, tmr >>
    /\ MayFail
    /\ sidecar.exists
    /\ srv.ver = 0
    /\ l \in Lens
    /\ srv' = [srv EXCEPT !.ver = 1, !.len = l, !.md5 = m]
    /\ hist' = [hist EXCEPT !.changed = TRUE, !.nevents = @ + 1]
    /\ UNCHANGED << partFile, outFile, sidecar, pc, opt, userUrl, session,
                    canceled, w, egErr, runErr, outcome >>

\* backgroundContext: SIGINT / SIGTERM cancels the root context.
Cancel ==
    /\ pc \in {"follow", "fanout", "wait"}
    /\ UNCHANGED << fol, mir, tmr >>
    /\ ~canceled
    /\ MayFail
    /\ canceled' = TRUE
    /\ hist' = [Fault(hist) EXCEPT !.cancelRunning =
                    (pc = "wait" /\ \E i \in 1..MaxParts : w[i].pc \in {"retry", "body"})]
    /\ UNCHANGED << srv, partFile, outFile, sidecar, pc, opt, userUrl,
                    session, w, egErr, runErr, outcome >>

\* ---------------------------------------------------------------- Cmd.Run
\* Run returns e; how names the return statement taken.
Return(e, how) ==
    /\ pc' = "exit"
    /\ runErr' = e
    /\ outcome' = how

\* Run, lines 117-197: options, context, --continue or the typed URL.
\* Every process of a behaviour is given the same --parts.
StartRun(c) ==
    /\ pc \in {"idle", "exit"}
    /\ UNCHANGED << fol, mir, tmr >>
    /\ pc = "exit" => MayFail
    /\ c => sidecar.exists
    /\ hist.changed => c
    /\ opt' = [opt EXCEPT !.cont = c]
    /\ canceled' = FALSE
    /\ userUrl' = IF c THEN sidecar.sess.Location ELSE "typed"
    /\ session' = IF c THEN sidecar.sess ELSE NoSession
    /\ w' = [i \in 1..MaxParts |-> IdleWorker]
    /\ egErr' = NilErr
    /\ runErr' = NilErr
    /\ outcome' = "none"
    /\ pc' = "follow"
    /\ hist' = [hist EXCEPT !.disk0 = Snapshot,
                            !.srv0 = srv,
                            !.prevCanceled = (pc = "exit" /\ outcome = "state"
                                              /\ runErr = ExpectedError("context canceled")),
                            !.faults = FALSE,
                            !.nevents = IF pc = "exit" THEN @ + 1 ELSE @,
                            !.gaveUp = FALSE,
                            !.cancelRunning = FALSE]
    /\ UNCHANGED << srv, partFile, outFile, sidecar >>

\* Session.removeFiles
removeFiles(ps, pf) ==
    [n \in DOMAIN pf |->
        IF \E k \in 1..Len(ps) : ps[k].FileName = n THEN NoFile ELSE pf[n]]

\* the resume guard with the ContentLength comparison left out
guardMD5Only(last, fresh) == last.ContentMD5 = fresh.ContentMD5

\* Run, lines 219-230: the loaded session must match the resolved one
guardOK(last, fresh) ==
    /\ last.ContentMD5 = fresh.ContentMD5
    /\ last.ContentLength = fresh.ContentLength

\* Run, lines 209-254: resolve the session, then resume guard or planning.
\* res is what follow returned, answer the reply to the overwrite prompt.
Resolve(res, answer) ==
    /\ pc = "follow"
    /\ UNCHANGED << fol, mir, tmr >>
    /\ UNCHANGED << srv, outFile, sidecar, opt, userUrl, canceled, w, egErr >>
    /\ LET fresh == [Location |-> "final",
                     ContentLength |-> RespContentLength(srv),
                     ContentMD5 |-> srv.md5,
                     Parts |-> << >>]
       IN IF res # "ok"
          THEN /\ MayFail \/ canceled
               /\ Return(IF canceled THEN ExpectedError("context canceled")
                         ELSE IF res = "maxRedirects"
                              THEN ExpectedError("maximum number of redirects")
                              ELSE PlainErr(res),
                         "follow")
               /\ hist' = IF canceled THEN hist ELSE Fault(hist)
               /\ UNCHANGED << partFile, session >>
          ELSE IF opt.cont
          THEN IF ~guardOK(session, fresh)
               THEN /\ Return(PlainErr("mismatch"), "guard")
                    /\ UNCHANGED << partFile, session, hist >>
               ELSE /\ session' = [session EXCEPT !.Location = fresh.Location]
                    /\ pc' = "fanout"
                    /\ UNCHANGED << partFile, runErr, outcome, hist >>
          ELSE LET n == IF srv.mode = "plain" THEN 1 ELSE opt.Parts
                   planned == [fresh EXCEPT !.Parts = calcParts(fresh.ContentLength, n)]
               IN IF outFile.exists /\ answer # "y"
                  THEN /\ Return(NilErr, "declined")
                       /\ session' = planned
                       /\ UNCHANGED << partFile, hist >>
                  ELSE /\ session' = planned
                       /\ partFile' = IF outFile.exists
                                      THEN removeFiles(planned.Parts, partFile)
                                      ELSE partFile
                       /\ pc' = "fanout"
                       /\ UNCHANGED << runErr, outcome, hist >>

\* a worker for every part, done or not
SpawnedAll(ps) == 1..Len(ps)

\* Run, line 274: the parts a worker is started for
Spawned(ps) == {i \in 1..Len(ps) : ~isDone(ps[i])}

\* Run, lines 273-294: one goroutine per part that is not done; and each
\* goroutine's first statements (download, lines 91-110): it opens its
\* segment file for append, creating it, and enters the retry loop.
FanOut ==
    /\ pc = "fanout"
    /\ UNCHANGED << fol, mir, tmr >>
    /\ w' = [i \in 1..MaxParts |->
                IF i \in Spawned(Parts)
                THEN [IdleWorker EXCEPT !.pc = "retry",
                                        !.total = Parts[i].Stop - Parts[i].Start + 1]
                ELSE IdleWorker]
    /\ partFile' = [n \in DOMAIN partFile |->
                       IF \E i \in Spawned(Parts) : Parts[i].FileName = n
                          /\ ~partFile[n].exists
                       THEN File(<< >>)
                       ELSE partFile[n]]
    /\ pc' = "wait"
    /\ UNCHANGED << srv, outFile, sidecar, opt, userUrl, session,
                    canceled, egErr, runErr, outcome, hist >>

\* ----------------------------------------------------------- Part.download
\* the status the server answers to the part's request
ServerStatus(s, p) ==
    IF s.mode = "ranges"
    THEN IF rangeFirst(p) >= s.len THEN 416 ELSE StatusPartialContent
    ELSE StatusOK

\* the retry function's give-up test with the bound one too high
giveUpLate(count, maxTry) == count > maxTry + 1

\* download, line 116: the retry function's give-up test
giveUp(count, maxTry) == count > maxTry

\* no part is skipped on a 200 answer
skipOn200Never(order) == FALSE

\* download, line 180: on a 200 answer every part but the first is skipped
skipOn200(order) == order # 0

\* the status test that lets 403 through to the body
unexpectedStatusBut403(status) ==
    status # StatusPartialContent /\ status # StatusForbidden

\* download, line 200: the status test of the default case
unexpectedStatus(status) == status # StatusPartialContent

\* backoff.Retry: fn is called again when it returned (true, err), err # nil
RetryContinues(retry, err) == retry /\ err # NilErr

\* a group made by errgroup.WithContext: the first error cancels the context
groupCancelsOnError(e) == e # NilErr

\* Run, line 267: `var eg errgroup.Group` has no cancel function, an error
\* returned by a goroutine cancels nothing
groupCancels(e) == FALSE

\* download returns e: the deferred close, the removal of a skipped part's
\* segment file (lines 95-104), and errgroup keeping the first error.
\* p2, pf2, w2, h2: the part, the segment files, the workers and the
\* history as the step leaves them.
Finish(i, e, p2, pf2, w2, h2) ==
    /\ session' = [session EXCEPT !.Parts[i] = p2]
    /\ partFile' = IF p2.Skip THEN [pf2 EXCEPT ![p2.FileName] = NoFile] ELSE pf2
    /\ w' = [w2 EXCEPT ![i].pc = "returned", ![i].ret = e]
    /\ egErr' = IF egErr = NilErr THEN e ELSE egErr
    /\ canceled' = (canceled \/ groupCancels(e))
    /\ hist' = [h2 EXCEPT !.gaveUp = @ \/ e = ErrGiveUp]

\* One call of the retry function up to the response's status line
\* (lines 112-203), or backoff.Retry returning on cancellation.
\* net: "doerr" client.Do fails, "fatal" a 403 answer, "resp" the server's
\* regular answer.
WAttempt(i, net) ==
    /\ pc = "wait"
    /\ UNCHANGED << fol, mir, tmr >>
    /\ w[i].pc = "retry"
    /\ net # "resp" => MayFail
    /\ UNCHANGED << srv, outFile, sidecar, pc, opt, userUrl, runErr, outcome >>
    /\ LET p == Parts[i]
           status == IF net = "doerr" THEN NoResponse
                     ELSE IF net = "fatal" THEN StatusForbidden
                     ELSE ServerStatus(srv, p)
           wg == [w EXCEPT ![i].gets = @ + 1, ![i].status = status]
       IN IF canceled
          THEN Finish(i, ErrCanceled, p, partFile, w, hist)
          ELSE IF giveUp(w[i].count, MaxRetry)
          THEN Finish(i, ErrGiveUp, p, partFile, w, hist)
          ELSE IF isDone(p)
          THEN Finish(i, NilErr, p, partFile, w, hist)
          ELSE IF net = "doerr"
          THEN /\ RetryContinues(TRUE, ErrTransport)
               /\ w' = [wg EXCEPT ![i].count = @ + 1]
               /\ hist' = Fault(hist)
               /\ UNCHANGED << partFile, session, egErr, canceled >>
          ELSE IF status = StatusOK
          THEN IF skipOn200(i - 1)
               THEN Finish(i, NilErr, [p EXCEPT !.Skip = TRUE], partFile, wg, hist)
               ELSE /\ session' = [session EXCEPT
                                      !.Parts[i].Stop = RespContentLength(srv) - 1,
                                      !.Parts[i].Written = 0]
                    /\ w' = [wg EXCEPT ![i].pc = "body",
                                       ![i].total = RespContentLength(srv),
                                       ![i].pos = 0,
                                       ![i].last = srv.len - 1]
                    /\ UNCHANGED << partFile, egErr, hist, canceled >>
          ELSE IF ~unexpectedStatus(status)
          THEN /\ w' = [wg EXCEPT ![i].pc = "body",
                                  ![i].pos = rangeFirst(p),
                                  ![i].last = rangeLast(p, srv)]
               /\ UNCHANGED << partFile, session, egErr, hist, canceled >>
          ELSE Finish(i, ErrUnexpectedStatus, p, partFile, wg,
                      IF net = "fatal" THEN Fault(hist) ELSE hist)

\* The rest of the retry function (lines 205-260): k bytes of the body
\* reach the segment file, then the body ends (fin = "eof") or the read
\* fails (fin = "err": transport error, per-attempt deadline, cancellation).
WBody(i, k, fin) ==
    /\ pc = "wait"
    /\ UNCHANGED << fol, mir, tmr >>
    /\ w[i].pc = "body"
    /\ k \in 0..(w[i].last - w[i].pos + 1)
    /\ fin = "eof" => k = w[i].last - w[i].pos + 1
    /\ fin = "err" => MayFail \/ canceled
    /\ UNCHANGED << srv, outFile, sidecar, pc, opt, userUrl, runErr, outcome >>
    /\ LET p == Parts[i]
           data == BodyRange(srv, w[i].pos, w[i].pos + k - 1)
           pf2 == [partFile EXCEPT ![p.FileName].data = @ \o data]
           pw == [p EXCEPT !.Written = @ + k]
           p2 == IF w[i].total <= 0 THEN [pw EXCEPT !.Stop = pw.Written - 1] ELSE pw
           err == IF canceled THEN ErrCanceled ELSE ErrTransport
           h2 == IF canceled THEN hist ELSE Fault(hist)
       IN IF fin = "eof"
          THEN Finish(i, NilErr, p2, pf2, w, hist)
          ELSE IF RetryContinues(~isDone(p2), err)
          THEN /\ session' = [session EXCEPT !.Parts[i] = p2]
               /\ partFile' = pf2
               /\ w' = [w EXCEPT ![i].pc = "retry", ![i].count = @ + 1]
               /\ hist' = h2
               /\ UNCHANGED << egErr, canceled >>
          ELSE Finish(i, err, p2, pf2, w, h2)

\* ------------------------------------------------------- join and assembler
\* Session.concatenateParts: the segment files in index order
RECURSIVE Concat(_, _)
Concat(ps, pf) ==
    IF ps = << >> THEN << >> ELSE pf[Head(ps).FileName].data \o Concat(Tail(ps), pf)

AllPresent(ps, pf) == \A k \in 1..Len(ps) : pf[ps[k].FileName].exists

\* the test against context.DeadlineExceeded, which a cancelled token
\* never reports
markExpectedOnDeadline(err, ctxCanceled) == FALSE

\* Run, line 299: the join's error is marked as expected
markExpected(err, ctxCanceled) == err # NilErr /\ ctxCanceled

\* Run, line 303: the test that sends Run to the assembler
whole(written, contentLength) == written = contentLength \/ contentLength <= 0

\* a wait that returns with goroutines still running
groupWaitReturnsEarly(ws) == TRUE

\* Run, line 296: eg.Wait() returns when every goroutine has returned
groupWaitReturns(ws) == \A i \in 1..MaxParts : ws[i].pc \in {"none", "returned"}

\* the state saved with the location the workers requested
savedLocationResolved(user, resolved) == resolved

\* Run, line 321: the saved state keeps the URL the user provided
savedLocation(user, resolved) == user

\* Run, lines 296-330: the join, then the assembler or the saved state.
\* io = "fail": concatenateParts meets an I/O error.
Join(io) ==
    /\ pc = "wait"
    /\ UNCHANGED << fol, mir, tmr >>
    /\ groupWaitReturns(w)
    /\ io = "fail" => MayFail
    /\ UNCHANGED << srv, opt, userUrl, canceled, w, egErr >>
    /\ LET s1 == [session EXCEPT !.Parts = actualPartsOnly(Parts)]
           written == totalWritten(s1)
           saved == [s1 EXCEPT !.Location = savedLocation(userUrl, s1.Location)]
       IN IF ~markExpected(egErr, canceled) /\ opt.Parts > 0
             /\ whole(written, s1.ContentLength)
          THEN IF io = "fail" \/ ~AllPresent(s1.Parts, partFile) \/ s1.Parts = << >>
               THEN /\ session' = s1
                    /\ Return(ErrIO, "concat")
                    /\ hist' = IF io = "fail" THEN Fault(hist) ELSE hist
                    /\ UNCHANGED << partFile, outFile, sidecar >>
               ELSE /\ session' = s1
                    /\ outFile' = File(Concat(s1.Parts, partFile))
                    /\ partFile' = removeFiles(s1.Parts, partFile)
                    /\ sidecar' = IF opt.cont
                                  THEN [exists |-> FALSE, sess |-> NoSession]
                                  ELSE sidecar
                    /\ Return(NilErr, "saved")
                    /\ UNCHANGED hist
          ELSE /\ session' = saved
               /\ sidecar' = [exists |-> TRUE, sess |-> saved]
               /\ Return(IF markExpected(egErr, canceled)
                         THEN ExpectedError("context canceled")
                         ELSE egErr,
                         "state")
               /\ UNCHANGED << partFile, outFile, hist >>

Next ==
    \/ \E l \in Lens, m \in 0..1 : ServerChange(l, m)
    \/ Cancel
    \/ \E c \in BOOLEAN : StartRun(c)
    \/ \E res \in {"ok", "network", "unexpected status", "maxRedirects"},
          answer \in {"y", "n"} : Resolve(res, answer)
    \/ FanOut
    \/ \E i \in 1..MaxParts, net \in {"doerr", "fatal", "resp"} : WAttempt(i, net)
    \/ \E i \in 1..MaxParts, k \in 0..MaxLen, fin \in {"eof", "err"} : WBody(i, k, fin)
    \/ \E io \in {"ok", "fail"} : Join(io)

Spec == Init /\ [][Next]_vars

\* The goroutines of a run are scheduled: a worker that can take a step
\* takes it, and Run, blocked in eg.Wait, goes on once all have returned.
WorkerStep(i) ==
    \/ \E net \in {"doerr", "fatal", "resp"} : WAttempt(i, net)
    \/ \E k \in 0..MaxLen, fin \in {"eof", "err"} : WBody(i, k, fin)

JoinStep == \E io \in {"ok", "fail"} : Join(io)

\* One process, from the start of main to the return of Run.
FirstRun == pc = "idle" /\ StartRun(FALSE)

NextLive ==
    \/ FirstRun
    \/ Cancel
    \/ \E res \in {"ok", "network", "unexpected status", "maxRedirects"},
          answer \in {"y", "n"} : Resolve(res, answer)
    \/ FanOut
    \/ \E i \in 1..MaxParts : WorkerStep(i)
    \/ JoinStep

SpecLive ==
    /\ Init
    /\ [][NextLive]_vars
    /\ \A i \in 1..MaxParts : WF_vars(WorkerStep(i))
    /\ WF_vars(JoinStep)

\* ------------------------------------------------------------- Cmd.follow
\* The entry URL is hop 0; the server answers hops 0..chain-1 with a
\* redirect to the next hop and hop number chain with the status term.
TerminalStatuses == {StatusOK, 204, StatusPartialContent, 404, 500}

InitFollow ==
    /\ mir = NoMirror
    /\ tmr = NoTimer
    /\ srv = [len |-> MaxLen, known |-> TRUE, mode |-> "ranges", ver |-> 0, md5 |-> 0]
    /\ partFile = [i \in 0..(MaxParts - 1) |-> NoFile]
    /\ outFile = NoFile
    /\ sidecar = [exists |-> FALSE, sess |-> NoSession]
    /\ pc = "follow"
    /\ opt = [Parts |-> 1, cont |-> FALSE]
    /\ userUrl = "typed"
    /\ session = NoSession
    /\ canceled = FALSE
    /\ w = [i \in 1..MaxParts |-> IdleWorker]
    /\ egErr = NilErr
    /\ runErr = NilErr
    /\ outcome = "none"
    /\ hist = [disk0 |-> [parts |-> [i \in 0..(MaxParts - 1) |-> NoFile],
                          out |-> NoFile,
                          side |-> [exists |-> FALSE, sess |-> NoSession]],
               srv0 |-> srv,
               prevCanceled |-> FALSE, changed |-> FALSE, faults |-> FALSE,
               gaveUp |-> FALSE, cancelRunning |-> FALSE, nevents |-> 0]
    /\ \E k \in 0..MaxChain, t \in TerminalStatuses :
          fol = [NoFollow EXCEPT !.pc = "loop", !.chain = k, !.term = t]

\* the status the server answers at hop u
HopStatus(f, u) == IF u < f.chain THEN 302 ELSE f.term

\* follow, line 364: the loop's condition
loopGoesOn(i) == i < maxRedirects

\* follow, line 399: the terminal status test
statusOK(status) == status = StatusOK

\* follow returns (location, e), location = -1 for a nil session: the
\* deferred function (lines 352-363), then Run's lines 209-216.
FollowDone(location, e, net) ==
    LET err == IF fol.redirected /\ location = -1 /\ e = NilErr
               THEN ExpectedError("maximum number of redirects")
               ELSE e
    IN /\ fol' = [fol EXCEPT !.pc = "done", !.location = location, !.err = err,
                             !.neterr = net]
       /\ runErr' = err
       /\ pc' = IF err = NilErr THEN "fanout" ELSE "exit"
       /\ outcome' = IF err = NilErr THEN "none" ELSE "follow"

\* follow, lines 364-430: one iteration of the loop. net: client.Do fails.
FollowIter(net) ==
    /\ fol.pc = "loop"
    /\ loopGoesOn(fol.i)
    /\ UNCHANGED << srv, partFile, outFile, sidecar, opt, userUrl, session,
                    canceled, w, egErr, hist, mir, tmr >>
    /\ LET status == HopStatus(fol, fol.url)
       IN IF net
          THEN FollowDone(-1, PlainErr("network"), TRUE)
          ELSE IF isRedirect(status)
          THEN /\ fol' = [fol EXCEPT !.redirected = TRUE, !.url = @ + 1, !.i = @ + 1]
               /\ UNCHANGED << pc, runErr, outcome >>
          ELSE IF ~statusOK(status)
          THEN FollowDone(-1, ErrUnexpectedStatus, FALSE)
          ELSE FollowDone(fol.url, NilErr, FALSE)

\* follow, line 431: the loop ran out; the bare return
FollowLoopEnd ==
    /\ fol.pc = "loop"
    /\ ~loopGoesOn(fol.i)
    /\ FollowDone(-1, NilErr, FALSE)
    /\ UNCHANGED << srv, partFile, outFile, sidecar, opt, userUrl, session,
                    canceled, w, egErr, hist, mir, tmr >>

NextFollow ==
    \/ \E net \in BOOLEAN : FollowIter(net)
    \/ FollowLoopEnd

SpecFollow == InitFollow /\ [][NextFollow]_vars

\* --------------------------------------------------------- Cmd.bestMirror
\* The candidate list has n lines; valid[u]: http.NewRequest accepts line u;
\* status[u]: what the probe of u gets from client.Do, NoResponse for a
\* transport error. The context of the race ends by its 15 s deadline, by
\* the root token, or by the deferred cancel when bestMirror returns.
ProbeOutcomes == {StatusOK, 404, NoResponse}

ErrDeadline == PlainErr("context deadline exceeded")

InitMirror ==
    /\ fol = NoFollow
    /\ tmr = NoTimer
    /\ srv = [len |-> MaxLen, known |-> TRUE, mode |-> "ranges", ver |-> 0, md5 |-> 0]
    /\ partFile = [i \in 0..(MaxParts - 1) |-> NoFile]
    /\ outFile = NoFile
    /\ sidecar = [exists |-> FALSE, sess |-> NoSession]
    /\ pc = "mirror"
    /\ opt = [Parts |-> 1, cont |-> FALSE]
    /\ userUrl = "none"
    /\ session = NoSession
    /\ canceled = FALSE
    /\ w = [i \in 1..MaxParts |-> IdleWorker]
    /\ egErr = NilErr
    /\ runErr = NilErr
    /\ outcome = "none"
    /\ hist = [disk0 |-> [parts |-> [i \in 0..(MaxParts - 1) |-> NoFile],
                          out |-> NoFile,
                          side |-> [exists |-> FALSE, sess |-> NoSession]],
               srv0 |-> srv,
               prevCanceled |-> FALSE, changed |-> FALSE, faults |-> FALSE,
               gaveUp |-> FALSE, cancelRunning |-> FALSE, nevents |-> 0]
    /\ \E n \in 0..MaxMirrors :
       \E v \in [1..n -> BOOLEAN], st \in [1..n -> ProbeOutcomes] :
          mir = [NoMirror EXCEPT !.n = n, !.valid = v, !.status = st,
                                 !.sel = "loop",
                                 !.pr = [u \in 1..n |-> "none"]]

MirrorFrame ==
    UNCHANGED << srv, partFile, outFile, sidecar, opt, userUrl, session,
                 canceled, w, egErr, hist, fol, pc, runErr, outcome, tmr >>

\* bestMirror, lines 460-490: the loop over the candidate lines; a line
\* NewRequest rejects is skipped, the others get readyWg.Add(1) and a
\* goroutine (subscribe).
MSpawn ==
    /\ mir.sel = "loop"
    /\ mir.j < mir.n
    /\ LET u == mir.j + 1
       IN mir' = IF mir.valid[u]
                 THEN [mir EXCEPT !.j = u, !.wg = @ + 1, !.pr[u] = "spawned"]
                 ELSE [mir EXCEPT !.j = u]
    /\ MirrorFrame

\* subscribe, lines 522-524: wg.Done(), then the goroutine blocks on start
MRegister(u) ==
    /\ u \in 1..mir.n
    /\ mir.pr[u] = "spawned"
    /\ mir' = [mir EXCEPT !.wg = @ - 1, !.pr[u] = "waiting"]
    /\ MirrorFrame

\* a wait that returns whatever the counter is
waitReturnsAlways(wg) == TRUE

\* bestMirror, line 491: readyWg.Wait() returns when the counter is zero
waitReturns(wg) == wg = 0

\* bestMirror, lines 491-492: readyWg.Wait() returns, close(start)
MRelease ==
    /\ mir.sel = "loop"
    /\ mir.j = mir.n
    /\ waitReturns(mir.wg)
    /\ mir' = [mir EXCEPT !.started = TRUE, !.sel = "select"]
    /\ MirrorFrame

\* the probe's test of the response with the status test left out
probeOKAny(status) == status # NoResponse

\* bestMirror, lines 475-483: the probe goes on to the rendezvous channel
probeOK(status) == status # NoResponse /\ status = StatusOK

\* subscribe, lines 524-525, and the probe, lines 470-483: the goroutine
\* passes the closed start channel and calls client.Do; with the context
\* done the request fails.
MFetch(u) ==
    /\ u \in 1..mir.n
    /\ mir.pr[u] = "waiting"
    /\ mir.started
    /\ LET st == IF mir.ctx = "live" THEN mir.status[u] ELSE NoResponse
       IN mir' = [mir EXCEPT !.issued = @ \cup {u},
                             !.early = @ \/ \E v \in 1..mir.n :
                                              mir.pr[v] \in {"none", "spawned"}
                                              /\ mir.valid[v],
                             !.pr[u] = IF probeOK(st) THEN "got" ELSE "done"]
    /\ MirrorFrame

\* the rendezvous channel's capacity: make(chan string, 1), line 455
firstCap == 1

\* a plain send, which waits for room in the channel
sendCompletesIfRoom(first) == Len(first) < firstCap

\* the probe, lines 484-488: the select has a default case, so the send
\* statement never waits
sendCompletes(first) == TRUE

\* the probe, lines 484-488: the non-blocking send to first
MSend(u) ==
    /\ u \in 1..mir.n
    /\ mir.pr[u] = "got"
    /\ sendCompletes(mir.first)
    /\ mir' = IF Len(mir.first) < firstCap
              THEN [mir EXCEPT !.first = Append(@, u), !.writes = Append(@, u),
                               !.pr[u] = "done"]
              ELSE [mir EXCEPT !.pr[u] = "done"]
    /\ MirrorFrame

\* context.WithTimeout(ctx, 15s) expires, or the root token is cancelled
MCtxDone(why) ==
    /\ mir.sel \in {"loop", "select", "ret"}
    /\ mir.ctx = "live"
    /\ mir' = [mir EXCEPT !.ctx = why]
    /\ MirrorFrame

\* bestMirror, lines 493-497: the select; with a winner in the channel and
\* the context done, either case may be taken.
MSelect(fromFirst) ==
    /\ mir.sel = "select"
    /\ IF fromFirst
       THEN /\ mir.first # << >>
            /\ mir' = [mir EXCEPT !.best = Head(mir.first), !.first = Tail(@),
                                  !.sel = "ret"]
       ELSE /\ mir.ctx # "live"
            /\ mir' = [mir EXCEPT !.sel = "ret"]
    /\ MirrorFrame

\* ctx.Err()
ctxErr(c) ==
    IF c = "live" THEN NilErr
    ELSE IF c = "deadline" THEN ErrDeadline ELSE ErrCanceled

\* bestMirror, line 498, and the deferred cancel (line 458); Run, lines
\* 190-196: the error is returned, else the URL becomes userUrl.
MReturn ==
    /\ mir.sel = "ret"
    /\ mir' = [mir EXCEPT !.err = ctxErr(mir.ctx), !.sel = "done",
                          !.ctx = IF @ = "live" THEN "closed" ELSE @]
    /\ runErr' = ctxErr(mir.ctx)
    /\ pc' = IF ctxErr(mir.ctx) = NilErr THEN "follow" ELSE "exit"
    /\ outcome' = IF ctxErr(mir.ctx) = NilErr THEN "none" ELSE "mirror"
    /\ UNCHANGED << srv, partFile, outFile, sidecar, opt, userUrl, session,
                    canceled, w, egErr, hist, fol, tmr >>

NextMirror ==
    \/ MSpawn
    \/ \E u \in 1..MaxMirrors : MRegister(u)
    \/ MRelease
    \/ \E u \in 1..MaxMirrors : MFetch(u)
    \/ \E u \in 1..MaxMirrors : MSend(u)
    \/ \E why \in {"deadline", "canceled"} : MCtxDone(why)
    \/ \E fromFirst \in BOOLEAN : MSelect(fromFirst)
    \/ MReturn

SpecMirror == InitMirror /\ [][NextMirror]_vars

\* The goroutines of the race are scheduled, and the 15 s timer of
\* context.WithTimeout fires unless the context is done before.
SpecMirrorLive ==
    /\ InitMirror
    /\ [][NextMirror]_vars
    /\ WF_vars(MSpawn)
    /\ \A u \in 1..MaxMirrors : WF_vars(MRegister(u))
    /\ WF_vars(MRelease)
    /\ \A u \in 1..MaxMirrors : WF_vars(MFetch(u))
    /\ \A u \in 1..MaxMirrors : WF_vars(MSend(u))
    /\ WF_vars(MCtxDone("deadline"))
    /\ WF_vars(\E fromFirst \in BOOLEAN : MSelect(fromFirst))
    /\ WF_vars(MReturn)

\* ------------------------------------------------------------ the planners
\* The resolved length is srv.len and the requested part count opt.Parts;
\* the plan is left in session.
totalParts == 2

\* main (src/main.go), lines 67-79: the ranges of the parts
mainParts(L, n) ==
    LET partSize == L \div n
    IN [k \in 1..n |->
           NewPart(k - 1, (k - 1) * partSize, (k - 1) * partSize + partSize - 1)]

InitPlan ==
    /\ fol = NoFollow
    /\ mir = NoMirror
    /\ tmr = NoTimer
    /\ \E L \in 1..MaxPlanLen :
          srv = [len |-> L, known |-> TRUE, mode |-> "ranges", ver |-> 0, md5 |-> 0]
    /\ partFile = [i \in 0..(MaxParts - 1) |-> NoFile]
    /\ outFile = NoFile
    /\ sidecar = [exists |-> FALSE, sess |-> NoSession]
    /\ pc = "plan"
    /\ opt \in [Parts : 2..MaxPlanParts, cont : {FALSE}]
    /\ userUrl = "typed"
    /\ session = NoSession
    /\ canceled = FALSE
    /\ w = [i \in 1..MaxParts |-> IdleWorker]
    /\ egErr = NilErr
    /\ runErr = NilErr
    /\ outcome = "none"
    /\ hist = [disk0 |-> [parts |-> [i \in 0..(MaxParts - 1) |-> NoFile],
                          out |-> NoFile,
                          side |-> [exists |-> FALSE, sess |-> NoSession]],
               srv0 |-> srv,
               prevCanceled |-> FALSE, changed |-> FALSE, faults |-> FALSE,
               gaveUp |-> FALSE, cancelRunning |-> FALSE, nevents |-> 0]

PlanFrame ==
    UNCHANGED << srv, partFile, outFile, sidecar, opt, userUrl, canceled, w,
                 egErr, runErr, outcome, hist, fol, mir, tmr >>

\* Run, lines 233-238: session.Parts = session.calcParts(Parts)
PlanRun ==
    /\ pc = "plan"
    /\ session' = [NoSession EXCEPT !.Location = "final",
                                    !.ContentLength = RespContentLength(srv),
                                    !.Parts = calcParts(RespContentLength(srv), opt.Parts)]
    /\ pc' = "planned"
    /\ PlanFrame

\* main (src/main.go), lines 64-82: the plan of the two-part download
PlanMain ==
    /\ pc = "plan"
    /\ session' = [NoSession EXCEPT !.Location = "final",
                                    !.ContentLength = RespContentLength(srv),
                                    !.Parts = mainParts(RespContentLength(srv), totalParts)]
    /\ pc' = "planned"
    /\ PlanFrame

NextPlan == PlanRun \/ PlanMain

SpecPlan == InitPlan /\ [][NextPlan]_vars

\* ------------------------------------------------------ per-attempt deadline
\* Part.download computes the deadline of an attempt in machine integers:
\* `timeout` and the shift are of type uint, time.Duration is an int64 count of
\* nanoseconds.  A machine word is held as eight base-256 digits, least
\* significant first, so that the arithmetic below is exact at full width.

WordLen == 8
DigitBase == 256
Zero64 == [k \in 1..WordLen |-> 0]

\* the word of a small non-negative number
FromInt(n) ==
    [k \in 1..WordLen |-> IF k <= 3 THEN (n \div (DigitBase ^ (k - 1))) % DigitBase
                          ELSE IF k = 4 THEN n \div (DigitBase ^ 3)
                          ELSE 0]

\* column sums of the schoolbook product, columns above the word dropped
Column(a, b, k) ==
    LET RECURSIVE Sum(_)
        Sum(i) == IF i > k THEN 0 ELSE a[i] * b[k + 1 - i] + Sum(i + 1)
    IN Sum(1)

\* a * b modulo 2^64
Mul64(a, b) ==
    LET RECURSIVE Carry(_, _)
        Carry(k, c) ==
            IF k > WordLen THEN << >>
            ELSE LET t == Column(a, b, k) + c
                 IN << t % DigitBase >> \o Carry(k + 1, t \div DigitBase)
    IN Carry(1, 0)

\* a value of type uint is cut to the width of the build's machine word
Trunc(x, bits) == [k \in 1..WordLen |-> IF 8 * k <= bits THEN x[k] ELSE 0]

\* 1 << s as a uint: a shift by the width or more gives 0
Shl1(s, bits) ==
    IF s >= bits THEN Zero64
    ELSE [k \in 1..WordLen |-> IF k = (s \div 8) + 1 THEN 2 ^ (s % 8) ELSE 0]

\* the sign of an int64
Negative(x) == x[WordLen] >= 128

UGt(a, b) ==
    \E k \in 1..WordLen : a[k] > b[k] /\ \A j \in (k + 1)..WordLen : a[j] = b[j]

\* a > b on int64
SGt(a, b) ==
    IF Negative(a) # Negative(b) THEN Negative(b) ELSE UGt(a, b)

\* time.Second and 10 * time.Minute in nanoseconds
NanosPerSecond == 1000000000
Second == FromInt(NanosPerSecond)
boundSeconds == 600
bound == Mul64(FromInt(boundSeconds), Second)

\* the uint widths a build can have
UintWidths == {32, 64}

\* Part.download, lines 135-140: the deadline armed for attempt `count`
ctxTimeout(count, timeout, bits) ==
    IF count > 0
    THEN LET d == Mul64(Trunc(Mul64(Shl1(count - 1, bits), FromInt(timeout)), bits), Second)
         IN IF SGt(d, bound) THEN bound ELSE d
    ELSE Mul64(FromInt(timeout), Second)

InitTimer ==
    /\ fol = NoFollow
    /\ mir = NoMirror
    /\ \E T \in 1..MaxTimeout, b \in UintWidths :
          tmr = [NoTimer EXCEPT !.bits = b, !.timeout = T]
    /\ srv = [len |-> MaxLen, known |-> TRUE, mode |-> "ranges", ver |-> 0, md5 |-> 0]
    /\ partFile = [i \in 0..(MaxParts - 1) |-> NoFile]
    /\ outFile = NoFile
    /\ sidecar = [exists |-> FALSE, sess |-> NoSession]
    /\ pc = "timer"
    /\ opt = [Parts |-> 1, cont |-> FALSE]
    /\ userUrl = "typed"
    /\ session = NoSession
    /\ canceled = FALSE
    /\ w = [i \in 1..MaxParts |-> IdleWorker]
    /\ egErr = NilErr
    /\ runErr = NilErr
    /\ outcome = "none"
    /\ hist = [disk0 |-> [parts |-> [i \in 0..(MaxParts - 1) |-> NoFile],
                          out |-> NoFile,
                          side |-> [exists |-> FALSE, sess |-> NoSession]],
               srv0 |-> srv,
               prevCanceled |-> FALSE, changed |-> FALSE, faults |-> FALSE,
               gaveUp |-> FALSE, cancelRunning |-> FALSE, nevents |-> 0]

TimerFrame ==
    UNCHANGED << srv, partFile, outFile, sidecar, pc, opt, userUrl, session,
                 canceled, w, egErr, runErr, outcome, hist, fol, mir >>

\* Part.download, lines 135-157: attempt `count` arms its deadline
TArm ==
    /\ pc = "timer"
    /\ ~tmr.armed
    /\ tmr' = [tmr EXCEPT !.armed = TRUE,
                          !.prev = tmr.ctxTimeout,
                          !.ctxTimeout = ctxTimeout(tmr.count, tmr.timeout, tmr.bits)]
    /\ TimerFrame

\* Part.download, lines 116-118 and 163-167: the attempt fails with a
\* retryable error and the next one starts, up to maxTry
TRetry ==
    /\ pc = "timer"
    /\ tmr.armed
    /\ tmr.count < MaxAttempt
    /\ tmr' = [tmr EXCEPT !.armed = FALSE, !.count = tmr.count + 1]
    /\ TimerFrame

NextTimer ==
    \/ TArm
    \/ TRetry

SpecTimer == InitTimer /\ [][NextTimer]_vars

\* ================================================================== claims
Exited == pc = "exit"
Joined == Exited /\ outcome \in {"saved", "state", "concat"}
SomeWorkerStarted == \E i \in 1..MaxParts : w[i].pc # "none"
SessionFilesGone == \A k \in 1..Len(Parts) : ~partFile[Parts[k].FileName].exists

\* C1: whenever Run returns success after invoking the assembler, the
\* output file's contents byte-equal the server's body (the resource not
\* having been replaced), for known and unknown ContentLength and after any
\* sequence of attempts, failures and retries.
C1_OutputEqualsBody ==
    (Exited /\ outcome = "saved" /\ ~hist.changed) => outFile = File(Body(srv))

\* C2: a run interrupted by cancellation with its state saved, restarted
\* with --continue against the unchanged server and meeting no further
\* failure, completes the download with an output equal to the server's
\* body, for every part count including the single open-ended part.
C2_ResumeCompletes ==
    (Exited /\ opt.cont /\ hist.prevCanceled /\ ~hist.changed /\ ~hist.faults)
        => (outcome = "saved" /\ outFile = File(Body(srv)))

\* C3: a part worker issues at most MaxRetry+1 GET requests in one call of
\* download, and a worker that returns the give-up error has issued exactly
\* that many.
C3_AtMostMaxRetryAttempts ==
    \A i \in 1..MaxParts :
        /\ w[i].gets <= MaxRetry + 1
        /\ (w[i].pc = "returned" /\ w[i].ret = ErrGiveUp) => w[i].gets = MaxRetry + 1

C3_Witness ==
    \E i \in 1..MaxParts :
        w[i].pc = "returned" /\ w[i].ret = ErrGiveUp /\ w[i].gets = MaxRetry + 1

\* C4: when a --continue run resolves a ContentMD5 or ContentLength that
\* (of the server as this process met it, hist.srv0) differs from the
\* loaded session's, Run returns an error, the segment
\* files, the output file and the sidecar are as they were when the process
\* started, and no part worker was started.
LoadedMismatch ==
    LET last == hist.disk0.side.sess
    IN \/ last.ContentMD5 # hist.srv0.md5
       \/ last.ContentLength # RespContentLength(hist.srv0)

C4_ResumeGuard ==
    (Exited /\ opt.cont /\ LoadedMismatch)
        => /\ runErr # NilErr
           /\ outcome \in {"guard", "follow"}
           /\ Snapshot = hist.disk0
           /\ ~SomeWorkerStarted

C4_Witness ==
    /\ Exited /\ opt.cont /\ outcome = "guard"
    /\ hist.disk0.side.sess.ContentMD5 = hist.srv0.md5
    /\ hist.disk0.side.sess.ContentLength # RespContentLength(hist.srv0)
    /\ \E n \in DOMAIN partFile : partFile[n].exists

\* C5: once the workers have been fanned out, every return of Run other
\* than the clean completion leaves the sidecar holding the session as it
\* is at that return.
C5_StateSavedOnEveryOtherPath ==
    (Joined /\ outcome # "saved")
        => (sidecar.exists /\ sidecar.sess.Parts = Parts)

\* C6: after a run that completes successfully, fresh or resumed, none of
\* the session's segment files and no sidecar remains on disk.
C6_NothingLeftAfterSuccess ==
    (Exited /\ outcome = "saved") => (SessionFilesGone /\ ~sidecar.exists)

\* C7: when a worker gave up after exceeding MaxRetry, Cmd.Exit maps the
\* error Run returns to exit code 1.
C7_GiveUpExitsWithOne ==
    (Exited /\ hist.gaveUp) => Exit(runErr) = 1

\* C10: if a worker returned an error and the token was not cancelled, Run
\* returns that first worker error and does not report the download saved.
C10_WorkerErrorReturned ==
    (Joined /\ egErr # NilErr /\ ~canceled)
        => (runErr = egErr /\ outcome # "saved")

\* ------------------------------------------------- claims on the assembler
AssemblerInvoked == Exited /\ outcome \in {"saved", "concat"}
SomePartHasData == \E k \in 1..Len(Parts) : Parts[k].Written > 0

\* C11: the assembler is invoked only when, after the join, totalWritten
\* equals ContentLength, or ContentLength <= 0 and at least one part has
\* written data; in every other case the output file is as the process
\* found it.
C11_AssemblerOnlyWhenWhole ==
    LET success == \/ totalWritten(session) = session.ContentLength
                   \/ (session.ContentLength <= 0 /\ SomePartHasData)
    IN /\ AssemblerInvoked => success
       /\ (Joined /\ ~success) => outFile = hist.disk0.out

\* --------------------------------------------------- claims on cancellation
AllWorkersReturned == \A i \in 1..MaxParts : w[i].pc \in {"none", "returned"}
CanceledWhileRunning == canceled /\ hist.cancelRunning

\* once the token is cancelled no worker issues another GET
NoAttemptAfterCancel ==
    [][(canceled /\ pc = "wait") => \A i \in 1..MaxParts : w'[i].gets = w[i].gets]_vars

\* C12 as stated: after the token is cancelled while workers are running,
\* no worker starts a new HTTP attempt, every worker eventually returns,
\* and Run returns the Expected 'canceled' error (exit code 1).
C12_CancelAlwaysExpected ==
    /\ NoAttemptAfterCancel
    /\ (CanceledWhileRunning /\ pc = "wait") ~> (AllWorkersReturned /\ Exited)
    /\ [](( Joined /\ CanceledWhileRunning)
            => (runErr = ExpectedError("context canceled") /\ Exit(runErr) = 1))

\* C12 amended: after the token is cancelled while workers are running, no
\* worker starts a new HTTP attempt, every worker eventually returns and
\* Run returns; Run returns the Expected 'canceled' error (exit code 1)
\* when a worker returned an error, and what it returns without the
\* cancellation when every worker had already completed.
C12_CancelExpectedOnWorkerError ==
    /\ NoAttemptAfterCancel
    /\ (CanceledWhileRunning /\ pc = "wait") ~> (AllWorkersReturned /\ Exited)
    /\ [](( Joined /\ CanceledWhileRunning)
            => IF egErr # NilErr
               THEN runErr = ExpectedError("context canceled") /\ Exit(runErr) = 1
               ELSE runErr \in {NilErr, ErrIO})

C12_Witness ==
    /\ Joined /\ CanceledWhileRunning /\ egErr = ErrCanceled
    /\ runErr = ExpectedError("context canceled")
    /\ \E i \in 1..MaxParts : w[i].gets > 0 /\ w[i].ret = ErrCanceled

\* ------------------------------------------------ claims on the mirror race
MirrorReturned == mir.sel = "done"
NoUrl == 0

\* C13: when bestMirror returns a non-empty URL, it is a candidate whose
\* probe observed status 200 and the first probe to write to the rendezvous
\* channel; the channel never holds more than one URL and the URL the
\* selector has taken is never replaced, however many probes observe 200.
C13_FirstWriterWins ==
    /\ []((MirrorReturned /\ mir.best # NoUrl)
            => /\ mir.best \in 1..mir.n
               /\ mir.status[mir.best] = StatusOK
               /\ mir.writes # << >>
               /\ mir.best = Head(mir.writes))
    /\ [](Len(mir.first) <= 1)
    /\ [][mir.best # NoUrl => mir'.best = mir.best]_vars

C13_Witness ==
    /\ MirrorReturned
    /\ mir.best # NoUrl
    /\ mir.err = NilErr
    /\ \E u \in 1..mir.n :
          u # mir.best /\ mir.status[u] = StatusOK /\ mir.pr[u] = "done"

\* every goroutine the selector created has registered at the barrier
AllRegistered ==
    \A v \in 1..mir.n : mir.valid[v] => mir.pr[v] \notin {"none", "spawned"}

\* C23: no probe issues its GET before every probe goroutine has registered
\* and the selector has closed start; and start is always closed, whatever
\* candidate lines are skipped.
C23_BarrierBeforeFetch ==
    /\ [](~mir.early)
    /\ [](mir.issued # {} => (mir.started /\ AllRegistered))
    /\ [](mir.started => (mir.j = mir.n /\ AllRegistered))
    /\ <>(mir.started)

\* the race is under way with a skipped line and two registered probes, one
\* of which has issued its GET
C23_Witness ==
    /\ mir.started
    /\ \E u \in 1..mir.n : ~mir.valid[u]
    /\ \E u, v \in 1..mir.n :
          u # v /\ u \in mir.issued /\ mir.pr[v] = "waiting"

\* the select of the selector is decided in this step
SelectTaken == mir.sel = "select" /\ mir'.sel = "ret"

\* C27: the selector returns either a URL with a nil error or no URL with
\* the deadline / cancel error, never a URL together with an error; and it
\* does not leave the select without a URL while one sits in the channel.
C27_ResultExclusive ==
    /\ [](MirrorReturned => (mir.best # NoUrl <=> mir.err = NilErr))
    /\ [][(SelectTaken /\ mir.first # << >>) => mir'.best # NoUrl]_vars

\* every probe goroutine has run to its end
AllProbesDone == \A u \in 1..mir.n : mir.valid[u] => mir.pr[u] = "done"

\* C28: the mirror race terminates: the selector returns once a winner is
\* in the channel or the context is done, and no probe stays blocked on the
\* start barrier or on the rendezvous channel, for zero, one or several
\* probes observing 200 and for an empty list.
C28_RaceTerminates ==
    /\ <>MirrorReturned
    /\ (mir.sel = "select" /\ (mir.first # << >> \/ mir.ctx # "live"))
          ~> MirrorReturned
    /\ <>[]AllProbesDone
    /\ [](\A u \in 1..mir.n :
            /\ (mir.started /\ mir.pr[u] = "waiting") => ENABLED MFetch(u)
            /\ mir.pr[u] = "got" => ENABLED MSend(u))

\* the selector has returned a winner, every probe has ended, and two more
\* probes had observed 200
C28_Witness ==
    /\ MirrorReturned
    /\ AllProbesDone
    /\ mir.best # NoUrl
    /\ \E u, v \in 1..mir.n :
          /\ u # v /\ u # mir.best /\ v # mir.best
          /\ mir.status[u] = StatusOK /\ mir.status[v] = StatusOK
          /\ u \in mir.issued /\ v \in mir.issued

\* ---------------------------------------------------- claims on the planner
RECURSIVE SumSizes(_)
SumSizes(ps) ==
    IF ps = << >> THEN 0
    ELSE (Head(ps).Stop - Head(ps).Start + 1) + SumSizes(Tail(ps))

\* the parts ps tile [0, L-1]
Tiles(ps, L) ==
    /\ ps # << >>
    /\ ps[1].Start = 0
    /\ \A i \in 2..Len(ps) : ps[i].Start = ps[i - 1].Stop + 1
    /\ ps[Len(ps)].Stop = L - 1
    /\ SumSizes(ps) = L

Planned == pc = "planned"

\* C14: for every ContentLength L > 0 and part count N >= 2 with range
\* support, N not dividing L and N > L included, the planned parts tile
\* [0, L-1] exactly: they start at 0, each starts right after the one
\* before, the last stops at L-1 and their sizes sum to L.
C14_PlanTiles == Planned => Tiles(Parts, session.ContentLength)

\* ------------------------------------------------ claims on the part worker
WorkerStarted(i) == i <= Len(Parts) /\ w[i].pc # "none"

\* the segment file of part p holds the resource's bytes [Start, Start+Written)
HoldsItsRange(p) ==
    partFile[p.FileName].data = BodyRange(srv, p.Start, p.Start + p.Written - 1)

\* C15: for a part with Stop > 0 on a server that answers 206 (the resource
\* not having been replaced), while the workers run every attempt's body
\* starts at offset Start+Written and the segment file holds exactly the
\* resource's bytes [Start, Start+Written), in order.
C15_RangeResumesAtWritten ==
    \A i \in 1..MaxParts :
        (pc = "wait" /\ WorkerStarted(i) /\ srv.mode = "ranges" /\ ~hist.changed
            /\ Parts[i].Stop > 0)
        => /\ HoldsItsRange(Parts[i])
           /\ w[i].pc = "body" => w[i].pos = Parts[i].Start + Parts[i].Written

\* worker i's attempt ends in this step with an error (transport error or
\* per-attempt deadline) before the response's body was read to its end
AttemptCutShort(i) ==
    /\ pc = "wait"
    /\ i <= Len(Parts)
    /\ w[i].pc = "body"
    /\ w'[i].pc # "body"
    /\ ~(w'[i].pc = "returned" /\ w'[i].ret = NilErr)
    /\ w[i].pos + (session'.Parts[i].Written - Parts[i].Written) <= w[i].last

\* C16: an attempt that ends with a transport error or an expired deadline
\* while the part's data is incomplete is followed by another call of the
\* retry function (which gives up once the count exceeds MaxRetry), unless
\* the token was cancelled; for ranged and open-ended parts alike.
C16_FailedAttemptIsRetried ==
    [][\A i \in 1..MaxParts :
          (AttemptCutShort(i) /\ ~canceled)
              => (w'[i].pc = "retry" /\ w'[i].count = w[i].count + 1)]_vars

\* the deadline in seconds that attempt a is to have: T doubled a-1 times,
\* held at 10 minutes once it is reached
DoubledCapped(T, k) ==
    LET RECURSIVE D(_, _)
        D(x, j) == IF x >= boundSeconds THEN boundSeconds
                   ELSE IF j = 0 THEN x ELSE D(2 * x, j - 1)
    IN D(T, k)

DeadlineSeconds(a, T) == IF a = 0 THEN T ELSE DoubledCapped(T, a - 1)

\* C17: the deadline armed for attempt a is T seconds for a = 0 and
\* min(T * 2^(a-1) seconds, 10 minutes) for a >= 1, without wrap-around: it is
\* positive, at most 10 minutes and not smaller than the previous attempt's.
C17_DeadlineDoublesCapped ==
    tmr.armed =>
        /\ tmr.ctxTimeout = Mul64(FromInt(DeadlineSeconds(tmr.count, tmr.timeout)), Second)
        /\ ~Negative(tmr.ctxTimeout)
        /\ tmr.ctxTimeout # Zero64
        /\ ~SGt(tmr.ctxTimeout, bound)
        /\ (tmr.count > 0 => ~SGt(tmr.prev, tmr.ctxTimeout))

\* worker i got a response in this step (one more GET, a status line read)
GotResponse(i) ==
    /\ pc = "wait"
    /\ w[i].pc = "retry"
    /\ w'[i].gets = w[i].gets + 1
    /\ w'[i].status # NoResponse

\* C18: a response whose status is neither 206 nor 200 (403 included) ends the
\* worker with the unexpected-status error; the worker makes no further
\* attempt, and Written, Stop, Skip and the segment file stay as they were.
C18_UnexpectedStatusIsFatal ==
    /\ [][\A i \in 1..MaxParts :
            (GotResponse(i) /\ w'[i].status \notin {StatusOK, StatusPartialContent})
               => /\ w'[i].pc = "returned"
                  /\ w'[i].ret = ErrUnexpectedStatus
                  /\ Parts'[i] = Parts[i]
                  /\ partFile' = partFile]_vars
    /\ [][\A i \in 1..MaxParts :
            (pc = "wait" /\ pc' = "wait" /\ w[i].pc = "returned")
               => w'[i] = w[i]]_vars

\* a worker that had written part of its range was ended by a 403
C18_Witness ==
    \E i \in 1..MaxParts :
        /\ pc = "wait"
        /\ w[i].pc = "returned"
        /\ w[i].ret = ErrUnexpectedStatus
        /\ w[i].status = StatusForbidden
        /\ Parts[i].Written > 0
        /\ ~isDone(Parts[i])

\* C19: a worker whose part index is not 0 and that reads a 200 sets Skip,
\* appends nothing, returns success without another attempt, and its segment
\* file is gone when it has returned; the part of index 0 is never skipped.
C19_SkipOn200 ==
    /\ [][\A i \in 2..MaxParts :
            (GotResponse(i) /\ w'[i].status = StatusOK)
               => /\ Parts'[i].Skip
                  /\ Parts'[i].Written = Parts[i].Written
                  /\ w'[i].pc = "returned"
                  /\ w'[i].ret = NilErr
                  /\ partFile'[Parts[i].FileName] = NoFile
                  /\ \A n \in DOMAIN partFile :
                        n # Parts[i].FileName => partFile'[n] = partFile[n]]_vars
    /\ [][\A i \in 2..MaxParts :
            (pc = "wait" /\ pc' = "wait" /\ w[i].pc = "returned" /\ Parts[i].Skip)
               => w'[i].gets = w[i].gets]_vars
    /\ [](Len(Parts) >= 1 => ~Parts[1].Skip)
    /\ [](sidecar.exists /\ Len(sidecar.sess.Parts) >= 1 => ~sidecar.sess.Parts[1].Skip)

\* a part was skipped on a 200 and its file removed, while the first part
\* read a 200 too and carries on
C19_Witness ==
    /\ pc = "wait"
    /\ \E i \in 2..MaxParts :
          /\ w[i].pc = "returned"
          /\ w[i].status = StatusOK
          /\ w[i].gets = 1
          /\ Parts[i].Skip
          /\ ~partFile[Parts[i].FileName].exists
    /\ w[1].status = StatusOK
    /\ ~Parts[1].Skip

\* worker i returns a failure of its own in this step: a fatal status or
\* the give-up after MaxRetry retries
WorkerFails(i) ==
    /\ pc = "wait"
    /\ w[i].pc # "returned"
    /\ w'[i].pc = "returned"
    /\ w'[i].ret \in {ErrUnexpectedStatus, ErrGiveUp}

WorkerFailed(i) ==
    w[i].pc = "returned" /\ w[i].ret \in {ErrUnexpectedStatus, ErrGiveUp}

WorkerRunning(j) == w[j].pc \in {"retry", "body"}

\* C20: a worker's failure (fatal status, give-up) does not cancel or stop
\* another worker: the step leaves the others and the token as they were, a
\* running worker can still take its next step, it ends by cancellation only
\* when the token is cancelled, and it does end.
C20_FailureLeavesOthersRunning ==
    /\ [][\A i \in 1..MaxParts :
            WorkerFails(i)
               => /\ canceled' = canceled
                  /\ \A j \in 1..MaxParts \ {i} : w'[j] = w[j]
                  /\ \A j \in DOMAIN Parts \ {i} : Parts'[j] = Parts[j]]_vars
    /\ [](\A i, j \in 1..MaxParts :
            (pc = "wait" /\ WorkerFailed(i) /\ WorkerRunning(j))
               => ENABLED WorkerStep(j))
    /\ [](\A j \in 1..MaxParts :
            (pc = "wait" /\ w[j].pc = "returned" /\ w[j].ret = ErrCanceled)
               => canceled)
    /\ \A j \in 1..MaxParts :
          (pc = "wait" /\ WorkerRunning(j) /\ \E i \in 1..MaxParts : WorkerFailed(i))
             ~> (w[j].pc = "returned")

\* one worker has failed, the token is not cancelled, and the other worker
\* is past a retry of its own and reading a body
C20_Witness ==
    /\ pc = "wait"
    /\ ~canceled
    /\ \E i, j \in 1..MaxParts :
          /\ i # j
          /\ WorkerFailed(i)
          /\ w[j].pc = "body"
          /\ w[j].count > 0

\* the session a resumed run loaded from the sidecar
Loaded == hist.disk0.side.sess

Resumed == opt.cont /\ pc \in {"fanout", "wait"}

\* C21: on resume no worker is started and no request is issued for a part
\* that is done in the loaded session; its Start, Stop, Written and segment
\* file stay as loaded until the assembler runs.
C21_DonePartsUntouched ==
    Resumed =>
        \A i \in 1..Len(Loaded.Parts) :
            isDone(Loaded.Parts[i]) =>
                /\ w[i].pc = "none"
                /\ w[i].gets = 0
                /\ Parts[i] = Loaded.Parts[i]
                /\ partFile[Loaded.Parts[i].FileName]
                      = hist.disk0.parts[Loaded.Parts[i].FileName]

\* a resumed run with one part done as loaded, holding data, while the
\* worker of another part has issued a request
C21_Witness ==
    /\ Resumed
    /\ pc = "wait"
    /\ \E i, j \in 1..Len(Loaded.Parts) :
          /\ isDone(Loaded.Parts[i])
          /\ Loaded.Parts[i].Written > 0
          /\ w[j].gets > 0

\* C22: over interrupt / --continue cycles the Location in the saved sidecar
\* is the URL the user typed, never the resolved one, and the workers of
\* every run request the freshly resolved location.
C22_SidecarKeepsTypedUrl ==
    /\ sidecar.exists => sidecar.sess.Location = "typed"
    /\ pc \in {"fanout", "wait"} => (session.Location = "final" /\ userUrl = "typed")

\* a resumed run, itself interrupted, has saved the sidecar again
C22_Witness ==
    /\ pc = "exit"
    /\ opt.cont
    /\ hist.prevCanceled
    /\ outcome = "state"
    /\ runErr = ExpectedError("context canceled")
    /\ sidecar.exists
    /\ \E i \in 1..MaxParts : w[i].gets > 0

\* C24: the assembler never runs while a worker is still running, and each
\* Part record and segment file is written by one worker only: the parts of
\* a run have distinct files, and a step that changes a part or its file is
\* a step of that part's worker and of no other.
C24_JoinThenAssemble ==
    /\ [](AssemblerInvoked => \A i \in 1..MaxParts : ~WorkerRunning(i))
    /\ [][(pc = "wait" /\ outcome' \in {"saved", "concat"})
             => \A i \in 1..MaxParts : ~WorkerRunning(i)]_vars
    /\ [](pc = "wait" =>
            \A i, j \in DOMAIN Parts :
                i # j => Parts[i].FileName # Parts[j].FileName)
    /\ [][(pc = "wait" /\ pc' = "wait") =>
            \A i \in DOMAIN Parts :
                (\/ Parts'[i] # Parts[i]
                 \/ partFile'[Parts[i].FileName] # partFile[Parts[i].FileName])
                   => /\ w'[i] # w[i]
                      /\ \A j \in 1..MaxParts \ {i} : w'[j] = w[j]]_vars

\* the assembler has run after two workers each wrote their own segment
C24_Witness ==
    /\ AssemblerInvoked
    /\ outcome = "saved"
    /\ Len(Parts) >= 2
    /\ \A i \in DOMAIN Parts :
          w[i].pc = "returned" /\ w[i].gets > 0 /\ Parts[i].Written > 0

\* worker i is between two attempts or past its last one
AtAttemptBoundary(i) == WorkerStarted(i) /\ w[i].pc \in {"retry", "returned"}

\* C25: at the start and at the end of every attempt of a worker, Written
\* is the number of bytes in the part's segment file; also after part 0
\* adopted a 200 response, and in a fresh run that found segment files of
\* an earlier run.
C25_WrittenIsFileSize ==
    \A i \in 1..MaxParts :
        (pc = "wait" /\ AtAttemptBoundary(i) /\ ~Parts[i].Skip)
            => Len(partFile[Parts[i].FileName].data) = Parts[i].Written

\* where the data of the k-th part of ps has to reach: the start of the next
\* part that is not skipped, or the end of the resource
RangeEnd(ps, k) ==
    LET later == {j \in (k + 1)..Len(ps) : ~ps[j].Skip}
    IN IF later = {} THEN hist.srv0.len
       ELSE ps[CHOOSE j \in later : \A m \in later : j <= m].Start

\* every done part of ps that carries data carries all of it
DoneIsComplete(ps) ==
    \A k \in 1..Len(ps) :
        (isDone(ps[k]) /\ ~ps[k].Skip)
           => ps[k].Start + ps[k].Written >= RangeEnd(ps, k)

\* C26: in memory and in the sidecar, a part that satisfies the done
\* predicate holds the complete data of its range, or the complete body for
\* the open-ended part; an open-ended or unknown-length part cut short is
\* not done.
C26_DoneMeansComplete ==
    (~hist.changed /\ pc \in {"wait", "exit"})
       => /\ DoneIsComplete(Parts)
          /\ sidecar.exists => DoneIsComplete(sidecar.sess.Parts)

\* ----------------------------------------------------- claims on follow
FollowReturned == fol.pc = "done"
\* the terminal response was reached: all redirects followed, no failure
TerminalReached == FollowReturned /\ ~fol.neterr /\ fol.url = fol.chain

\* C8: a non-2xx terminal status gives the unexpected-status error,
\* classified Expected (exit code 1); every 2xx terminal status gives a
\* Session and no error.
C8_TerminalStatus ==
    TerminalReached
        => IF fol.term >= 200 /\ fol.term <= 299
           THEN fol.location = fol.chain /\ fol.err = NilErr
           ELSE fol.err.msg = "unexpected status" /\ Exit(runErr) = 1

\* C9: a chain of k redirects ending in a 200 response resolves to the
\* final URL when k <= maxRedirects; the maximum-redirects error, which is
\* Expected (exit code 1), is returned only after more than maxRedirects
\* redirects.
C9_RedirectChain ==
    (FollowReturned /\ ~fol.neterr /\ fol.term = StatusOK)
        => IF fol.chain <= maxRedirects
           THEN fol.location = fol.chain /\ fol.err = NilErr
           ELSE fol.err = ExpectedError("maximum number of redirects")
                /\ Exit(runErr) = 1

====
